---- MODULE Spec2Model ----
(***************************************************************************)
(* A model of py_trees/blackboard.py: the Borg-style Blackboard store,     *)
(* the Set/Clear/Check/WaitFor blackboard behaviours and the ROSBlackboard *)
(* watcher (sub-blackboards and their publishers).                         *)
(*                                                                         *)
(* Variable names are strings; they are modelled as sequences of tokens,   *)
(* a token being a path segment or one of the separators "." and "/", so   *)
(* that str.split, str.join and operator.attrgetter act on them as they do *)
(* on the strings.  Names range over strings that are not attributes of    *)
(* the Blackboard class itself ("get", "set", "__dict__", ...).            *)
(***************************************************************************)
EXTENDS Integers, Sequences, FiniteSets, TLC

\* Largest integer stored in, or expected of, a blackboard variable.
MaxVal == 2

\* Most sub-blackboards alive at once.
MaxWatches == 1

\* Most sub-blackboards alive at once when initialize_sub_blackboard is called directly.
MaxRegistered == 2

VARIABLES
    dicts,      \* the attribute dictionaries: Blackboard.__shared_state and each handle's own
    register,   \* ghost: the names written and not deleted since, each with the value last written
    b,          \* the Check/WaitFor behaviour instance: its fields
    fresh,      \* ghost: the cache was reset and no update() has run since
    prevret,    \* ghost: what the most recent update() returned, "-" before the first
    last,       \* ghost: the most recent call, its arguments and what it returned
    sub_blackboards,         \* ROSBlackboard.sub_blackboards: the list of SubBlackboard objects
    cached_blackboard_dict,  \* ROSBlackboard.cached_blackboard_dict
    connections,             \* ROSBlackboard.publisher.get_num_connections()
    polled,     \* ghost: per sub-blackboard, what the most recent publish_blackboard did
    tick,       \* the tick thread inside publish_blackboard: its position and loop variables
    service,    \* the service thread inside shutdown_sub_blackboard: its position and index
    audit       \* ghost: what the publish_blackboard under way has visited and touched

storeVars == <<dicts, register>>
behaviourVars == <<b, fresh, prevret>>
rosVars == <<sub_blackboards, cached_blackboard_dict, connections, polled>>
threadVars == <<tick, service, audit>>
vars == <<dicts, register, b, fresh, prevret, last,
          sub_blackboards, cached_blackboard_dict, connections, polled,
          tick, service, audit>>

----------------------------------------------------------------------------
(* Values *)

IntV(i) == [kind |-> "int", v |-> i]
\* an object whose only public data attribute, x, holds the integer i
ObjV(i) == [kind |-> "obj", v |-> i]
NoneV == [kind |-> "none", v |-> 0]
\* what Lookup gives for a key that is not in a dictionary
Missing == [kind |-> "missing", v |-> 0]

Ints == {IntV(i) : i \in 1..MaxVal}

Names == {<<"speed">>, <<"pose">>, <<"pose", ".", "x">>, <<"pose", "/", "x">>}

\* the values the modelled callers write under a name: None and integers under
\* "speed", an integer and objects under "pose", integers under the names that
\* hold a separator
ValuesFor(name) ==
    IF name = <<"speed">> THEN {NoneV} \cup Ints
    ELSE IF name = <<"pose">> THEN {IntV(1)} \cup {ObjV(i) : i \in 1..MaxVal}
    ELSE Ints

\* the names the Check/WaitFor instance and the behaviours around it are built with
BehaviourNames == {<<"speed">>, <<"pose">>, <<"pose", ".", "x">>}

UserHandles == {"user1", "user2"}
Handles == UserHandles \cup {"setter", "clearer", "behaviour", "ros", "sub"}
SharedState == "__shared_state"
DictIds == {SharedState} \cup Handles

\* Python dictionaries: functions from the keys present
EmptyDict == <<>>
Put(d, key, value) == [k \in DOMAIN d \cup {key} |-> IF k = key THEN value ELSE d[k]]
Remove(d, key) == [k \in DOMAIN d \ {key} |-> d[k]]
Lookup(d, key) == IF key \in DOMAIN d THEN d[key] ELSE Missing

----------------------------------------------------------------------------
(* Blackboard *)

\* a handle that keeps the instance dictionary it was created with
OwnDict(h) == h

\* Blackboard.__init__: self.__dict__ = self.__shared_state
BlackboardDict(h) == SharedState

\* the dictionary behind handle h
SelfDict(h) == dicts[BlackboardDict(h)]

Ok(v) == [ok |-> TRUE, val |-> v]
AttributeError == [ok |-> FALSE, val |-> NoneV]

\* getattr(blackboard, key): key is the whole string, separators included
GetAttrBlackboard(d, key) ==
    IF key \in DOMAIN d THEN Ok(d[key]) ELSE AttributeError

\* getattr(value, key) on a stored value
GetAttrValue(val, key) ==
    IF val.kind = "obj" /\ key = <<"x">> THEN Ok(IntV(val.v)) ELSE AttributeError

\* the index of the first sep in s, 0 when there is none
RECURSIVE Find(_, _, _)
Find(s, sep, i) ==
    IF i > Len(s) THEN 0 ELSE IF s[i] = sep THEN i ELSE Find(s, sep, i + 1)

\* str.split(sep)
RECURSIVE Split(_, _)
Split(s, sep) ==
    LET i == Find(s, sep, 1)
    IN  IF i = 0 THEN <<s>>
        ELSE <<SubSeq(s, 1, i - 1)>> \o Split(SubSeq(s, i + 1, Len(s)), sep)

\* sep.join(segs)
RECURSIVE Join(_, _)
Join(segs, sep) ==
    IF Len(segs) = 1 THEN Head(segs)
    ELSE Head(segs) \o <<sep>> \o Join(Tail(segs), sep)

\* operator.attrgetter: the getattr of each further segment
RECURSIVE Walk(_, _)
Walk(r, segs) ==
    IF ~r.ok \/ segs = <<>> THEN r
    ELSE Walk(GetAttrValue(r.val, Head(segs)), Tail(segs))

\* operator.attrgetter(name)(blackboard)
AttrGetter(d, name) ==
    LET segs == Split(name, ".")
    IN  Walk(GetAttrBlackboard(d, Head(segs)), Tail(segs))

\* SubBlackboard.update_sub_blackboard: check_attr(self.blackboard) for one attr
CheckAttr(d, attr) ==
    IF Find(attr, "/", 1) # 0
    THEN AttrGetter(d, Join(Split(attr, "/"), "."))
    ELSE AttrGetter(d, attr)

\* Blackboard.set with the overwrite test dropped
SetAlways(d, name, value, overwrite) ==
    [ret |-> TRUE, dict |-> Put(d, name, value)]

\* Blackboard.set
BlackboardSet(d, name, value, overwrite) ==
    IF ~overwrite /\ GetAttrBlackboard(d, name).ok
    THEN [ret |-> FALSE, dict |-> d]
    ELSE [ret |-> TRUE, dict |-> Put(d, name, value)]

\* Blackboard.get
BlackboardGet(d, name) ==
    LET r == GetAttrBlackboard(d, name) IN IF r.ok THEN r.val ELSE NoneV

\* delattr(blackboard, name)
DelAttr(d, name) ==
    IF GetAttrBlackboard(d, name).ok
    THEN [raised |-> FALSE, dict |-> Remove(d, name)]
    ELSE [raised |-> TRUE, dict |-> d]

\* ClearBlackboardVariable.initialise: the AttributeError of delattr is swallowed
ClearInitialise(d, name) == [raised |-> FALSE, dict |-> DelAttr(d, name).dict]

\* SetBlackboardVariable.initialise: set(variable_name, variable_value, overwrite=True)
SetInitialise(d, name, value) == BlackboardSet(d, name, value, TRUE)

----------------------------------------------------------------------------
(* CheckBlackboardVariable and WaitForBlackboardVariable *)

SUCCESS == "SUCCESS"
FAILURE == "FAILURE"
RUNNING == "RUNNING"
INVALID == "INVALID"
Status == {SUCCESS, FAILURE, RUNNING, INVALID}
\* matching_result = None
Unset == "None"

ON_INITIALISE == "ON_INITIALISE"
ON_SUCCESS == "ON_SUCCESS"
ClearingPolicy == {ON_INITIALISE, ON_SUCCESS}

\* the comparison operators the modelled callers plug in: operator.eq, operator.ne
Comparators == {"eq", "ne"}

\* comparison_operator(value, expected_value)
Compare(op, value, expected) ==
    IF op = "eq" THEN value = expected ELSE value # expected

\* the instances Init draws from: __init__ stores the arguments and matching_result = None
Behaviours ==
    [class : {"Check", "Wait"},
     variable_name : BehaviourNames,
     expected_value : {NoneV} \cup Ints,
     comparison_operator : Comparators,
     clearing_policy : ClearingPolicy,
     matching_result : {Unset}]

\* CheckBlackboardVariable.update, a comparison failure reported as SUCCESS
CheckEvaluateInverted(d, self) ==
    LET r == AttrGetter(d, self.variable_name)
    IN  IF ~r.ok THEN FAILURE
        ELSE IF self.expected_value = NoneV THEN SUCCESS
        ELSE IF Compare(self.comparison_operator, r.val, self.expected_value)
             THEN FAILURE ELSE SUCCESS

\* CheckBlackboardVariable.update, the part that reads the blackboard
CheckEvaluate(d, self) ==
    LET r == AttrGetter(d, self.variable_name)
    IN  IF ~r.ok THEN FAILURE
        ELSE IF self.expected_value = NoneV THEN SUCCESS
        ELSE IF Compare(self.comparison_operator, r.val, self.expected_value)
             THEN SUCCESS ELSE FAILURE

\* CheckBlackboardVariable.update that never looks at the cached result
CheckUpdateNoMemo(d, self) ==
    LET result == CheckEvaluate(d, self)
    IN  [ret |-> result,
         matching_result |->
            IF result = SUCCESS /\ self.clearing_policy = ON_SUCCESS
            THEN Unset ELSE result]

\* CheckBlackboardVariable.update that caches every result
CheckUpdateCacheAll(d, self) ==
    IF self.matching_result # Unset
    THEN [ret |-> self.matching_result, matching_result |-> self.matching_result]
    ELSE LET result == CheckEvaluate(d, self)
         IN  [ret |-> result, matching_result |-> result]

\* CheckBlackboardVariable.update
CheckUpdate(d, self) ==
    IF self.matching_result # Unset
    THEN [ret |-> self.matching_result, matching_result |-> self.matching_result]
    ELSE LET result == CheckEvaluate(d, self)
         IN  [ret |-> result,
              matching_result |->
                 IF result = SUCCESS /\ self.clearing_policy = ON_SUCCESS
                 THEN Unset ELSE result]

\* WaitForBlackboardVariable.update, the part that reads the blackboard
WaitEvaluate(d, self) ==
    IF ~GetAttrBlackboard(d, self.variable_name).ok THEN RUNNING
    ELSE IF self.expected_value = NoneV THEN SUCCESS
    ELSE IF Compare(self.comparison_operator,
                    GetAttrBlackboard(d, self.variable_name).val,
                    self.expected_value)
         THEN SUCCESS ELSE RUNNING

\* WaitForBlackboardVariable.update that caches RUNNING as well
WaitUpdateCacheAll(d, self) ==
    IF self.matching_result # Unset
    THEN [ret |-> self.matching_result, matching_result |-> self.matching_result]
    ELSE LET result == WaitEvaluate(d, self)
         IN  [ret |-> result, matching_result |-> result]

\* WaitForBlackboardVariable.update
WaitUpdate(d, self) ==
    IF self.matching_result # Unset
    THEN [ret |-> self.matching_result, matching_result |-> self.matching_result]
    ELSE LET result == WaitEvaluate(d, self)
         IN  [ret |-> result,
              matching_result |->
                 IF result = SUCCESS /\ self.clearing_policy = ON_SUCCESS THEN Unset
                 ELSE IF result # RUNNING THEN result
                 ELSE self.matching_result]

\* initialise() that never clears
InitialiseNoClear(self) == self.matching_result

\* initialise() that clears whatever the clearing policy
InitialiseAlwaysClear(self) == Unset

\* CheckBlackboardVariable.initialise, WaitForBlackboardVariable.initialise (identical)
Initialise(self) ==
    IF self.clearing_policy = ON_INITIALISE THEN Unset ELSE self.matching_result

\* CheckBlackboardVariable.terminate, WaitForBlackboardVariable.terminate (identical)
Terminate(self, new_status) ==
    IF new_status = INVALID THEN Unset ELSE self.matching_result

----------------------------------------------------------------------------
(* ROSBlackboard and its SubBlackboards *)

\* cPickle.dumps(d, -1): a string, equal for equal dictionaries
Dumps(d) == [kind |-> "pickle", d |-> d]

\* the {} that cached_dict and cached_blackboard_dict start as: a dict, equal to no pickle
NotPickled == [kind |-> "dict", d |-> EmptyDict]

\* str(len(self.sub_blackboards))
Str(n) == <<"0", "1", "2", "3", "4", "5">>[n + 1]

\* the variables the watchers are asked for: lists of "/"-separated paths
AttrLists == {<<<<"speed">>>>, <<<<"pose", "/", "x">>>>, <<<<"speed">>, <<"pose", "/", "x">>>>}

\* an argument that is not a list
NotAList == <<<<"not a list">>>>

\* topic_name=None
NoTopic == <<>>

\* the topics the destroy service is asked for
RequestedTopics ==
    {<<"sub_blackboard_", Str(n)>> : n \in 0..MaxWatches}

\* the attrs and topic names initialize_sub_blackboard is called with: a list of
\* one variable, the empty list and something that is no list; no name, a name of
\* the caller's and a name of the kind the method makes up
RegistryAttrs == {<<<<"speed">>>>, <<>>, NotAList}
RegistryTopics == {NoTopic, <<"speed_watch">>, <<"sub_blackboard_", "1">>}

\* the names written and cleared while the watchers run, and the values written
WatchedNames == {<<"speed">>, <<"pose">>}
WatchedValues(name) ==
    IF name = <<"speed">> THEN Ints ELSE {ObjV(i) : i \in 1..MaxVal}

\* ghost: what a sub-blackboard showed when last polled with a subscriber; the
\* field id of a SubBlackboard is the identity of the object, 0 where the
\* specification has no use for it
Unseen == [known |-> FALSE, vals |-> EmptyDict]

\* SubBlackboard.__init__
SubBlackboard(topic_name, attrs) ==
    [topic_name |-> topic_name, attrs |-> attrs, dict |-> EmptyDict,
     cached_dict |-> NotPickled, connections |-> 0, publisher |-> "registered",
     seen |-> Unseen, id |-> 0]

\* SubBlackboard.update_sub_blackboard: self.dict after the loop over attrs
RECURSIVE UpdateSubBlackboard(_, _, _)
UpdateSubBlackboard(d, own, attrs) ==
    IF attrs = <<>> THEN own
    ELSE LET r == CheckAttr(d, Head(attrs))
         IN  UpdateSubBlackboard(d, IF r.ok THEN Put(own, Head(attrs), r.val) ELSE own,
                                 Tail(attrs))

\* an is_changed that does not keep the pickle it compared
SubIsChangedKeepCache(d, sub) ==
    LET own == UpdateSubBlackboard(d, sub.dict, sub.attrs)
    IN  [changed |-> Dumps(own) # sub.cached_dict, sub |-> [sub EXCEPT !.dict = own]]

\* SubBlackboard.is_changed
SubIsChanged(d, sub) ==
    LET own == UpdateSubBlackboard(d, sub.dict, sub.attrs)
        current_pickle == Dumps(own)
    IN  [changed |-> current_pickle # sub.cached_dict,
         sub |-> [sub EXCEPT !.dict = own, !.cached_dict = current_pickle]]

\* ROSBlackboard.is_changed
IsChanged(d, cached) ==
    [changed |-> Dumps(d) # cached, cached |-> Dumps(d)]

\* ROSBlackboard.initialize_sub_blackboard: the list afterwards and the name returned
InitializeSubBlackboard(subs, attrs, topic_name) ==
    IF attrs # NotAList
    THEN LET name == IF topic_name = NoTopic
                     THEN <<"sub_blackboard_", Str(Len(subs))>> ELSE topic_name
         IN  [subs |-> Append(subs, SubBlackboard(name, attrs)), ret |-> name]
    ELSE [subs |-> subs, ret |-> topic_name]

\* the index of the first sub-blackboard called topic_name, 0 when there is none
RECURSIVE FirstNamed(_, _, _)
FirstNamed(subs, topic_name, i) ==
    IF i > Len(subs) THEN 0
    ELSE IF subs[i].topic_name = topic_name THEN i
    ELSE FirstNamed(subs, topic_name, i + 1)

\* ROSBlackboard.shutdown_sub_blackboard
ShutdownSubBlackboard(subs, topic_name) ==
    LET i == FirstNamed(subs, topic_name, 1)
    IN  IF i = 0 THEN [subs |-> subs, ret |-> FALSE]
        ELSE [subs |-> SubSeq(subs, 1, i - 1) \o SubSeq(subs, i + 1, Len(subs)),
              ret |-> TRUE]

\* a publish that does not ask for the number of connections
PollSubUngated(d, sub) ==
    LET r == SubIsChanged(d, sub) IN [sub |-> r.sub, published |-> r.changed]

\* ROSBlackboard.publish_blackboard, one turn of the loop over sub_blackboards:
\* the sub-blackboard afterwards and whether it published
PollSub(d, sub) ==
    IF sub.connections > 0
    THEN LET r == SubIsChanged(d, sub) IN [sub |-> r.sub, published |-> r.changed]
    ELSE [sub |-> sub, published |-> FALSE]

----------------------------------------------------------------------------
(* ROSBlackboard.get_nested_keys *)

\* The frames inner may nest before Python raises "maximum recursion depth exceeded".
RecursionLimit == 4

\* an object whose class has one public data attribute, next: the objects 1 to 4
NodeV(n) == [kind |-> "node", v |-> n]
\* a bound method, what getattr gives for a method name
MethodV == [kind |-> "method", v |-> 0]

\* node.next: object 1 refers to itself, 2 and 3 to each other, 4 to an integer
NodeNext(n) == <<NodeV(1), NodeV(3), NodeV(2), IntV(1)>>[n]

\* the values list_blackboard_variables finds on the blackboard
KeyValues == {NoneV, IntV(1), ObjV(1)} \cup {NodeV(n) : n \in 1..4}
KeyNames == {<<"speed">>, <<"pose">>}

\* dir(type(v)), which is sorted: a constant, a private name, methods and data
Dir(v) ==
    IF v.kind = "obj" THEN <<"MAX", "__doc__", "describe", "x">>
    ELSE IF v.kind = "node" THEN <<"__doc__", "describe", "next">>
    ELSE IF v.kind = "int" THEN <<"__doc__", "bit_length", "real">>
    ELSE <<"__doc__">>

\* getattr(v, attr) for attr in dir(type(v))
GetAttr(v, attr) ==
    IF attr = "x" THEN IntV(v.v)
    ELSE IF attr = "next" THEN NodeNext(v.v)
    ELSE IF attr = "real" THEN v
    ELSE IF attr = "MAX" THEN IntV(1)
    ELSE IF attr \in {"describe", "bit_length"} THEN MethodV
    ELSE NoneV

\* isinstance(v, (bool, list, str, int, float))
IsPrimitive(v) == v.kind = "int"
\* attr.startswith("_")
StartsWithUnderscore(attr) == attr \in {"__doc__"}
\* callable(value)
Callable(value) == value.kind = "method"
\* attr.isupper()
IsUpper(attr) == attr \in {"MAX"}

\* sorted() of the names: the order of the strings
NameOrder == <<<<"pose">>, <<"pose", ".", "x">>, <<"pose", "/", "x">>, <<"speed">>>>
IsKey(d, n) == n \in DOMAIN d
Sorted(d) == SelectSeq(NameOrder, LAMBDA n : IsKey(d, n))

\* get_nested_keys.inner(v, k) at the given depth of nesting, acc being the list
\* variables so far and whether the recursion limit was hit; InnerFor is its loop
\* over the attrs left
RECURSIVE Inner(_, _, _, _), InnerFor(_, _, _, _, _)
InnerFor(v, k, attrs, depth, acc) ==
    IF acc.raised \/ attrs = <<>> THEN acc
    ELSE LET attr == Head(attrs)
             taken == /\ ~IsPrimitive(v)
                      /\ ~StartsWithUnderscore(attr)
                      /\ ~Callable(GetAttr(v, attr))
                      /\ ~IsUpper(attr)
             path == k \o <<"/", attr>>
         IN  InnerFor(v, k, Tail(attrs), depth,
                      IF taken
                      THEN Inner(GetAttr(v, attr), path, depth + 1,
                                 [acc EXCEPT !.variables = Append(@, path)])
                      ELSE acc)
Inner(v, k, depth, acc) ==
    IF depth > RecursionLimit THEN [acc EXCEPT !.raised = TRUE]
    ELSE InnerFor(v, k, Dir(v), depth, acc)

\* the loop of get_nested_keys over the sorted keys left
RECURSIVE KeysFor(_, _, _)
KeysFor(d, keys, acc) ==
    IF acc.raised \/ keys = <<>> THEN acc
    ELSE KeysFor(d, Tail(keys),
                 Inner(d[Head(keys)], Head(keys), 1,
                       [acc EXCEPT !.variables = Append(@, Head(keys))]))

\* ROSBlackboard.get_nested_keys: the list returned, or the recursion error raised
GetNestedKeys(d) == KeysFor(d, Sorted(d), [raised |-> FALSE, variables |-> <<>>])

----------------------------------------------------------------------------
(* State *)

NoCall ==
    [op |-> "none", name |-> <<>>, val |-> NoneV, ret |-> "-", pre |-> "-",
     arg |-> "-", flag |-> FALSE, before |-> EmptyDict, cached |-> NotPickled,
     subs |-> <<>>, attrs |-> <<>>, topic |-> <<>>, keys |-> <<>>]

Bool(x) == IF x THEN "True" ELSE "False"

\* the tick thread outside publish_blackboard; inside, i counts the elements the
\* for loop has taken and obj is the SubBlackboard its variable refers to
TickIdle == [pc |-> "idle", i |-> 0, obj |-> SubBlackboard(NoTopic, <<>>)]

\* the service thread outside shutdown_sub_blackboard
ServiceIdle == [pc |-> "idle", i |-> 0]

\* ghost: nothing visited, nothing touched, spawned counts the SubBlackboards made
NoAudit == [start |-> {}, visited |-> <<>>, released |-> {}, done |-> FALSE, spawned |-> 0]

\* a behaviour built with the default arguments of __init__, left alone by SpecStore
DefaultBehaviour ==
    [class |-> "Check", variable_name |-> <<"speed">>, expected_value |-> NoneV,
     comparison_operator |-> "eq", clearing_policy |-> ON_INITIALISE,
     matching_result |-> Unset]

InitStore ==
    /\ dicts = [id \in DictIds |-> EmptyDict]
    /\ register = EmptyDict
    /\ last = NoCall
    /\ fresh = TRUE
    /\ prevret = "-"
    /\ sub_blackboards = <<>>
    /\ cached_blackboard_dict = NotPickled
    /\ connections = 0
    /\ polled = <<>>
    /\ tick = TickIdle
    /\ service = ServiceIdle
    /\ audit = NoAudit

Init ==
    /\ InitStore
    /\ b = DefaultBehaviour

InitBehaviour ==
    /\ InitStore
    /\ b \in Behaviours

----------------------------------------------------------------------------
(* Blackboard calls made through any handle *)

\* blackboard.set(name, value, overwrite) through handle h
Set(h, name, value, overwrite) ==
    LET r == BlackboardSet(SelfDict(h), name, value, overwrite)
    IN  /\ dicts' = [dicts EXCEPT ![BlackboardDict(h)] = r.dict]
        /\ register' = IF overwrite \/ name \notin DOMAIN register
                       THEN Put(register, name, value) ELSE register
        /\ last' = [NoCall EXCEPT !.op = "set", !.name = name, !.val = value,
                                  !.ret = Bool(r.ret), !.flag = overwrite,
                                  !.before = dicts[SharedState]]
        /\ UNCHANGED <<threadVars, behaviourVars, rosVars>>

\* blackboard.get(name) through handle h
Get(h, name) ==
    /\ last' = [NoCall EXCEPT !.op = "get", !.name = name, !.arg = h,
                              !.val = BlackboardGet(SelfDict(h), name)]
    /\ UNCHANGED <<threadVars, storeVars, behaviourVars, rosVars>>

\* SetBlackboardVariable(variable_name=name, variable_value=value).initialise()
SetBlackboardVariableInitialise(name, value) ==
    LET r == SetInitialise(SelfDict("setter"), name, value)
    IN  /\ dicts' = [dicts EXCEPT ![BlackboardDict("setter")] = r.dict]
        /\ register' = Put(register, name, value)
        /\ last' = [NoCall EXCEPT !.op = "Set.initialise"]
        /\ polled' = <<>>
        /\ UNCHANGED <<threadVars, behaviourVars, sub_blackboards, cached_blackboard_dict, connections>>

\* ClearBlackboardVariable(variable_name=name).initialise()
ClearBlackboardVariableInitialise(name) ==
    LET r == ClearInitialise(SelfDict("clearer"), name)
    IN  /\ dicts' = [dicts EXCEPT ![BlackboardDict("clearer")] = r.dict]
        /\ register' = Remove(register, name)
        /\ last' = [NoCall EXCEPT !.op = "Clear.initialise", !.flag = r.raised]
        /\ polled' = <<>>
        /\ UNCHANGED <<threadVars, behaviourVars, sub_blackboards, cached_blackboard_dict, connections>>

----------------------------------------------------------------------------
(* The lifecycle calls of the host engine on the Check/WaitFor instance *)

BehaviourDict == SelfDict("behaviour")

UpdateStep(r) ==
    /\ b' = [b EXCEPT !.matching_result = r.matching_result]
    /\ last' = [NoCall EXCEPT !.op = "update", !.ret = r.ret,
                              !.pre = b.matching_result, !.arg = prevret,
                              !.flag = fresh]
    /\ prevret' = r.ret
    /\ fresh' = FALSE
    /\ UNCHANGED <<threadVars, storeVars, rosVars>>

CheckBlackboardVariableUpdate ==
    /\ b.class = "Check"
    /\ UpdateStep(CheckUpdate(BehaviourDict, b))

WaitForBlackboardVariableUpdate ==
    /\ b.class = "Wait"
    /\ UpdateStep(WaitUpdate(BehaviourDict, b))

\* initialise() of either class
BehaviourInitialise ==
    /\ b' = [b EXCEPT !.matching_result = Initialise(b)]
    /\ fresh' = (fresh \/ b.clearing_policy = ON_INITIALISE)
    /\ last' = [NoCall EXCEPT !.op = "initialise", !.pre = b.matching_result]
    /\ UNCHANGED <<threadVars, storeVars, prevret, rosVars>>

\* terminate(new_status) of either class
BehaviourTerminate(new_status) ==
    /\ b' = [b EXCEPT !.matching_result = Terminate(b, new_status)]
    /\ fresh' = (fresh \/ new_status = INVALID)
    /\ last' = [NoCall EXCEPT !.op = "terminate", !.pre = b.matching_result,
                              !.arg = new_status]
    /\ UNCHANGED <<threadVars, storeVars, prevret, rosVars>>

----------------------------------------------------------------------------
(* The watcher services, the subscribers and the end-of-tick publish *)

\* the value a watched path has for the claims: "pose/x" is the field x of "pose"
WatchValue(attr) ==
    IF attr = <<"pose", "/", "x">>
    THEN IF Lookup(register, <<"pose">>).kind = "obj"
         THEN IntV(register[<<"pose">>].v) ELSE Missing
    ELSE Lookup(register, attr)

\* the paths of attrs that resolve now, with their values
Snapshot(attrs) ==
    [a \in {attrs[i] : i \in {j \in DOMAIN attrs : WatchValue(attrs[j]) # Missing}}
        |-> WatchValue(a)]

\* initialize_sub_blackboard(attrs, topic_name) called on the ROSBlackboard
InitializeSubBlackboardCall(attrs, topic_name) ==
    LET r == InitializeSubBlackboard(sub_blackboards, attrs, topic_name)
    IN  /\ Len(sub_blackboards) < MaxRegistered
        /\ sub_blackboards' = r.subs
        /\ last' = [NoCall EXCEPT !.op = "initialize_sub_blackboard", !.name = r.ret,
                                  !.subs = sub_blackboards, !.attrs = attrs,
                                  !.topic = topic_name]
        /\ polled' = <<>>
        /\ UNCHANGED <<threadVars, storeVars, behaviourVars, cached_blackboard_dict, connections>>

\* spawn_blackboard_watcher_service(req): initialize_sub_blackboard(req.variables)
SpawnBlackboardWatcherService(attrs) ==
    LET r == InitializeSubBlackboard(sub_blackboards, attrs, NoTopic)
    IN  /\ Len(sub_blackboards) < MaxWatches
        /\ sub_blackboards' = r.subs
        /\ last' = [NoCall EXCEPT !.op = "spawn_blackboard_watcher", !.name = r.ret,
                                  !.subs = sub_blackboards, !.attrs = attrs]
        /\ polled' = <<>>
        /\ UNCHANGED <<threadVars, storeVars, behaviourVars, cached_blackboard_dict, connections>>

\* destroy_blackboard_watcher_service(req): shutdown_sub_blackboard(req)
DestroyBlackboardWatcherService(topic_name) ==
    LET r == ShutdownSubBlackboard(sub_blackboards, topic_name)
    IN  /\ sub_blackboards' = r.subs
        /\ last' = [NoCall EXCEPT !.op = "destroy_blackboard_watcher",
                                  !.name = topic_name, !.ret = Bool(r.ret),
                                  !.subs = sub_blackboards]
        /\ polled' = <<>>
        /\ UNCHANGED <<threadVars, storeVars, behaviourVars, cached_blackboard_dict, connections>>

\* list_blackboard_variables_service(req): get_nested_keys()
ListBlackboardVariablesService ==
    LET r == GetNestedKeys(SelfDict("ros"))
    IN  /\ last' = [NoCall EXCEPT !.op = "list_blackboard_variables",
                                  !.flag = r.raised, !.keys = r.variables]
        /\ polled' = <<>>
        /\ UNCHANGED <<threadVars, storeVars, behaviourVars, sub_blackboards,
                       cached_blackboard_dict, connections>>

\* a subscriber connects to, or leaves, the publisher of sub-blackboard i
SubscriberChange(i, n) ==
    /\ i \in DOMAIN sub_blackboards
    /\ sub_blackboards[i].connections # n
    /\ sub_blackboards' = [sub_blackboards EXCEPT ![i].connections = n]
    /\ last' = [NoCall EXCEPT !.op = "subscriber"]
    /\ polled' = <<>>
    /\ UNCHANGED <<threadVars, storeVars, behaviourVars, cached_blackboard_dict, connections>>

\* a subscriber connects to, or leaves, the "~blackboard" publisher
RootSubscriberChange(n) ==
    /\ connections # n
    /\ connections' = n
    /\ last' = [NoCall EXCEPT !.op = "subscriber"]
    /\ polled' = <<>>
    /\ UNCHANGED <<threadVars, storeVars, behaviourVars, sub_blackboards, cached_blackboard_dict>>

\* publish_blackboard(tree)
PublishBlackboard ==
    LET root == IF connections > 0
                THEN IsChanged(SelfDict("ros"), cached_blackboard_dict)
                ELSE [changed |-> FALSE, cached |-> cached_blackboard_dict]
        poll == [i \in DOMAIN sub_blackboards |->
                    PollSub(SelfDict("sub"), sub_blackboards[i])]
    IN  /\ cached_blackboard_dict' = root.cached
        /\ sub_blackboards' =
              [i \in DOMAIN sub_blackboards |->
                  [poll[i].sub EXCEPT !.seen =
                      IF sub_blackboards[i].connections > 0
                      THEN [known |-> TRUE, vals |-> Snapshot(sub_blackboards[i].attrs)]
                      ELSE Unseen]]
        /\ polled' =
              [i \in DOMAIN sub_blackboards |->
                  [topic_name |-> sub_blackboards[i].topic_name,
                   subscribed |-> sub_blackboards[i].connections > 0,
                   prev |-> sub_blackboards[i].seen,
                   cached |-> sub_blackboards[i].cached_dict,
                   cur |-> Snapshot(sub_blackboards[i].attrs),
                   count |-> IF poll[i].published THEN 1 ELSE 0]]
        /\ last' = [NoCall EXCEPT !.op = "publish_blackboard", !.flag = root.changed,
                                  !.cached = cached_blackboard_dict]
        /\ UNCHANGED <<threadVars, storeVars, behaviourVars, connections>>

----------------------------------------------------------------------------
(* publish_blackboard in the tick thread while the services, which rospy runs    *)
(* in threads of their own, spawn and destroy watchers.  No lock is taken: the   *)
(* threads interleave between the statements below.                              *)

\* Most SubBlackboards made in all by the spawn service while the threads interleave.
MaxSpawned == 2

\* the attrs the watchers are spawned with while the threads interleave
ThreadAttrLists == {<<<<"speed">>>>}

\* the place in the list of the SubBlackboard object id, 0 when it is not in it
RECURSIVE IndexOf(_, _, _)
IndexOf(subs, id, i) ==
    IF i > Len(subs) THEN 0
    ELSE IF subs[i].id = id THEN i ELSE IndexOf(subs, id, i + 1)

\* the object the loop variable sub_blackboard refers to, as it is now: an object
\* that left the list had its publisher unregistered first (lines 224, 225)
LoopObject ==
    LET i == IndexOf(sub_blackboards, tick.obj.id, 1)
    IN  IF i # 0 THEN sub_blackboards[i]
        ELSE [tick.obj EXCEPT !.publisher = "unregistered"]

\* the list with the object sub in the place of the one it is, if it is in the list
Store(subs, sub) ==
    [i \in DOMAIN subs |-> IF subs[i].id = sub.id THEN sub ELSE subs[i]]

\* ghost: the loop touches its object; noted when the publisher is unregistered
Touch ==
    IF LoopObject.publisher = "unregistered"
    THEN [audit EXCEPT !.released = @ \cup {tick.obj.id}] ELSE audit

\* spawn_blackboard_watcher_service(req) in a service thread
SpawnThread(attrs) ==
    LET r == InitializeSubBlackboard(sub_blackboards, attrs, NoTopic)
        n == Len(r.subs)
    IN  /\ audit.spawned < MaxSpawned
        /\ sub_blackboards' = [r.subs EXCEPT ![n].id = audit.spawned + 1]
        /\ audit' = [audit EXCEPT !.spawned = @ + 1]
        /\ last' = [NoCall EXCEPT !.op = "spawn_blackboard_watcher", !.name = r.ret]
        /\ UNCHANGED <<storeVars, behaviourVars, cached_blackboard_dict, connections,
                       polled, tick, service>>

\* shutdown_sub_blackboard(req), lines 222-224 and 227: the search of the list and
\* publisher.unregister() on the first match, or the return of False
ShutdownUnregister(topic_name) ==
    LET i == FirstNamed(sub_blackboards, topic_name, 1)
    IN  /\ service.pc = "idle"
        /\ IF i = 0
           THEN /\ last' = [NoCall EXCEPT !.op = "shutdown: return",
                                          !.name = topic_name, !.ret = Bool(FALSE)]
                /\ UNCHANGED <<sub_blackboards, service>>
           ELSE /\ sub_blackboards' =
                      [sub_blackboards EXCEPT ![i].publisher = "unregistered"]
                /\ service' = [pc |-> "del", i |-> i]
                /\ last' = [NoCall EXCEPT !.op = "shutdown: unregister",
                                          !.name = topic_name]
        /\ UNCHANGED <<storeVars, behaviourVars, cached_blackboard_dict, connections,
                       polled, tick, audit>>

\* shutdown_sub_blackboard(req), lines 225-226: del self.sub_blackboards[i]; return True
ShutdownDel ==
    /\ service.pc = "del"
    /\ sub_blackboards' = SubSeq(sub_blackboards, 1, service.i - 1)
                              \o SubSeq(sub_blackboards, service.i + 1, Len(sub_blackboards))
    /\ service' = ServiceIdle
    /\ last' = [NoCall EXCEPT !.op = "shutdown: return", !.ret = Bool(TRUE)]
    /\ UNCHANGED <<storeVars, behaviourVars, cached_blackboard_dict, connections,
                   polled, tick, audit>>

\* publish_blackboard(tree), lines 241-246: the root blackboard, then the test of
\* the length of the list
PublishRoot ==
    LET root == IF connections > 0
                THEN IsChanged(SelfDict("ros"), cached_blackboard_dict)
                ELSE [changed |-> FALSE, cached |-> cached_blackboard_dict]
    IN  /\ tick.pc = "idle"
        /\ cached_blackboard_dict' = root.cached
        /\ tick' = [TickIdle EXCEPT !.pc = IF Len(sub_blackboards) > 0
                                           THEN "for" ELSE "idle"]
        /\ audit' = [audit EXCEPT
                        !.start = {sub_blackboards[i].id :
                                      i \in {j \in DOMAIN sub_blackboards :
                                                sub_blackboards[j].publisher = "registered"}},
                        !.visited = <<>>, !.released = {},
                        !.done = (Len(sub_blackboards) = 0)]
        /\ last' = [NoCall EXCEPT !.op = "publish: root", !.flag = root.changed]
        /\ UNCHANGED <<storeVars, behaviourVars, sub_blackboards, connections,
                       polled, service>>

\* line 247: the for loop takes the next element of the list, or ends
PublishFor ==
    /\ tick.pc = "for"
    /\ IF tick.i < Len(sub_blackboards)
       THEN /\ tick' = [pc |-> "get_num_connections", i |-> tick.i + 1,
                        obj |-> sub_blackboards[tick.i + 1]]
            /\ audit' = [audit EXCEPT
                            !.visited = Append(@, sub_blackboards[tick.i + 1].id)]
       ELSE /\ tick' = TickIdle
            /\ audit' = [audit EXCEPT !.done = TRUE]
    /\ last' = [NoCall EXCEPT !.op = "publish: for"]
    /\ UNCHANGED <<storeVars, behaviourVars, sub_blackboards, cached_blackboard_dict,
                   connections, polled, service>>

\* line 248: sub_blackboard.publisher.get_num_connections() > 0.  What rospy
\* answers for an unregistered publisher is not this code's to say: it raises,
\* or gives a count of zero or more.
PublishGetNumConnections(outcome) ==
    /\ tick.pc = "get_num_connections"
    /\ LoopObject.publisher = "registered" =>
          outcome = (IF LoopObject.connections > 0 THEN "some" ELSE "none")
    /\ tick' = IF outcome = "raise" THEN TickIdle
               ELSE [tick EXCEPT !.pc = IF outcome = "some" THEN "is_changed" ELSE "for"]
    /\ audit' = Touch
    /\ last' = [NoCall EXCEPT !.op = "publish: get_num_connections"]
    /\ UNCHANGED <<storeVars, behaviourVars, sub_blackboards, cached_blackboard_dict,
                   connections, polled, service>>

\* line 249: sub_blackboard.is_changed()
PublishIsChanged ==
    LET r == SubIsChanged(SelfDict("sub"), LoopObject)
    IN  /\ tick.pc = "is_changed"
        /\ sub_blackboards' = Store(sub_blackboards, r.sub)
        /\ tick' = [tick EXCEPT !.pc = IF r.changed THEN "publish" ELSE "for",
                                !.obj = r.sub]
        /\ audit' = Touch
        /\ last' = [NoCall EXCEPT !.op = "publish: is_changed", !.flag = r.changed]
        /\ UNCHANGED <<storeVars, behaviourVars, cached_blackboard_dict, connections,
                       polled, service>>

\* line 250: sub_blackboard.publisher.publish(...); on an unregistered publisher
\* rospy raises or drops the message
PublishPublish(outcome) ==
    /\ tick.pc = "publish"
    /\ LoopObject.publisher = "registered" => outcome = "sent"
    /\ tick' = IF outcome = "raise" THEN TickIdle ELSE [tick EXCEPT !.pc = "for"]
    /\ audit' = Touch
    /\ last' = [NoCall EXCEPT !.op = "publish: publish", !.ret = outcome]
    /\ UNCHANGED <<storeVars, behaviourVars, sub_blackboards, cached_blackboard_dict,
                   connections, polled, service>>

\* a subscriber connects to, or leaves, the publisher of the SubBlackboard object id
SubscriberThread(i, n) ==
    /\ i \in DOMAIN sub_blackboards
    /\ sub_blackboards[i].publisher = "registered"
    /\ sub_blackboards[i].connections # n
    /\ sub_blackboards' = [sub_blackboards EXCEPT ![i].connections = n]
    /\ last' = [NoCall EXCEPT !.op = "subscriber"]
    /\ UNCHANGED <<storeVars, behaviourVars, cached_blackboard_dict, connections,
                   polled, tick, service, audit>>

----------------------------------------------------------------------------
(* Specifications *)

NextStore ==
    \/ \E h \in UserHandles, name \in Names, overwrite \in BOOLEAN :
          \E value \in ValuesFor(name) : Set(h, name, value, overwrite)
    \/ \E h \in UserHandles, name \in Names : Get(h, name)
    \/ \E name \in Names : \E value \in ValuesFor(name) :
          SetBlackboardVariableInitialise(name, value)
    \/ \E name \in Names : ClearBlackboardVariableInitialise(name)

NextBehaviour ==
    \/ \E name \in BehaviourNames : \E value \in ValuesFor(name) :
          SetBlackboardVariableInitialise(name, value)
    \/ \E name \in BehaviourNames : ClearBlackboardVariableInitialise(name)
    \/ CheckBlackboardVariableUpdate
    \/ WaitForBlackboardVariableUpdate
    \/ BehaviourInitialise
    \/ \E new_status \in Status : BehaviourTerminate(new_status)

NextWatch ==
    \/ \E name \in WatchedNames : \E value \in WatchedValues(name) :
          SetBlackboardVariableInitialise(name, value)
    \/ \E name \in WatchedNames : ClearBlackboardVariableInitialise(name)
    \/ \E attrs \in AttrLists : SpawnBlackboardWatcherService(attrs)
    \/ \E topic_name \in RequestedTopics : DestroyBlackboardWatcherService(topic_name)
    \/ \E i \in 1..MaxWatches, n \in {0, 1} : SubscriberChange(i, n)
    \/ \E n \in {0, 1} : RootSubscriberChange(n)
    \/ PublishBlackboard

\* the store and its handles
SpecStore == Init /\ [][NextStore]_vars

\* one Check or WaitFor instance, ticked in any order, among Set and Clear behaviours
SpecBehaviour == InitBehaviour /\ [][NextBehaviour]_vars

\* the ROSBlackboard: watchers spawned and destroyed, subscribers, the publish of each tick
SpecWatch == Init /\ [][NextWatch]_vars

\* the publish of each tick with the one variable "speed" written, cleared and watched
NextPublish ==
    \/ \E value \in Ints : SetBlackboardVariableInitialise(<<"speed">>, value)
    \/ ClearBlackboardVariableInitialise(<<"speed">>)
    \/ SpawnBlackboardWatcherService(<<<<"speed">>>>)
    \/ \E topic_name \in RequestedTopics : DestroyBlackboardWatcherService(topic_name)
    \/ \E i \in 1..MaxWatches, n \in {0, 1} : SubscriberChange(i, n)
    \/ \E n \in {0, 1} : RootSubscriberChange(n)
    \/ PublishBlackboard

SpecPublish == Init /\ [][NextPublish]_vars

\* the list of sub-blackboards: registered by the service and by direct calls,
\* destroyed, given subscribers and polled, over an empty blackboard
NextRegistry ==
    \/ \E attrs \in RegistryAttrs, topic_name \in RegistryTopics :
          InitializeSubBlackboardCall(attrs, topic_name)
    \/ \E attrs \in RegistryAttrs : SpawnBlackboardWatcherService(attrs)
    \/ \E topic_name \in RequestedTopics \cup (RegistryTopics \ {NoTopic}) :
          DestroyBlackboardWatcherService(topic_name)
    \/ \E i \in 1..MaxRegistered, n \in {0, 1} : SubscriberChange(i, n)
    \/ PublishBlackboard

SpecRegistry == Init /\ [][NextRegistry]_vars

\* the blackboard written and cleared, and listed by the service
NextKeys ==
    \/ \E name \in KeyNames, value \in KeyValues :
          SetBlackboardVariableInitialise(name, value)
    \/ \E name \in KeyNames : ClearBlackboardVariableInitialise(name)
    \/ ListBlackboardVariablesService

SpecKeys == Init /\ [][NextKeys]_vars

\* publish_blackboard in the tick thread, statement by statement, interleaved with
\* the spawn and destroy services
NextThreads ==
    \/ \E attrs \in ThreadAttrLists : SpawnThread(attrs)
    \/ \E topic_name \in RequestedTopics : ShutdownUnregister(topic_name)
    \/ ShutdownDel
    \/ \E i \in 1..MaxSpawned, n \in {0, 1} : SubscriberThread(i, n)
    \/ PublishRoot
    \/ PublishFor
    \/ \E outcome \in {"raise", "none", "some"} : PublishGetNumConnections(outcome)
    \/ PublishIsChanged
    \/ \E outcome \in {"raise", "dropped", "sent"} : PublishPublish(outcome)

SpecThreads == Init /\ [][NextThreads]_vars

----------------------------------------------------------------------------
(* The store as the claims speak of it *)

\* The value of the variable called name, Missing when it is absent.  A name with
\* the separator "." is a path: "pose.x" is the field x of the variable "pose".
PathValue(name) ==
    IF name = <<"pose", ".", "x">>
    THEN IF Lookup(register, <<"pose">>).kind = "obj"
         THEN IntV(register[<<"pose">>].v) ELSE Missing
    ELSE Lookup(register, name)

\* the variable of the behaviour exists and, when a value is expected, compares well
Matches ==
    LET v == PathValue(b.variable_name)
    IN  /\ v # Missing
        /\ \/ b.expected_value = NoneV
           \/ b.comparison_operator = "eq" /\ v = b.expected_value
           \/ b.comparison_operator = "ne" /\ v # b.expected_value

\* what get(name) returns of a register: the most recent write, None when there is none
RegisterValue(name) == IF name \in DOMAIN register THEN register[name] ELSE NoneV

----------------------------------------------------------------------------
(* Claims *)

\* C1: Check.update() called with no cached result returns FAILURE when the variable
\* is absent, SUCCESS when it is present and no value is expected, and otherwise
\* SUCCESS exactly when the comparator holds of (value, expected value); it never
\* returns RUNNING or INVALID.
C1_CheckUpdateResult ==
    (b.class = "Check" /\ last.op = "update" /\ last.pre = Unset) =>
        LET v == PathValue(b.variable_name)
            holds == IF b.comparison_operator = "eq" THEN v = b.expected_value
                     ELSE v # b.expected_value
        IN  /\ last.ret \in {SUCCESS, FAILURE}
            /\ v = Missing => last.ret = FAILURE
            /\ (v # Missing /\ b.expected_value = NoneV) => last.ret = SUCCESS
            /\ (v # Missing /\ b.expected_value # NoneV) =>
                  /\ holds => last.ret = SUCCESS
                  /\ ~holds => last.ret = FAILURE

\* a Check on the path "pose.x" with an expected value found it to compare well
C1_Witness ==
    /\ b.class = "Check" /\ last.op = "update" /\ last.pre = Unset
    /\ b.variable_name = <<"pose", ".", "x">>
    /\ b.expected_value # NoneV
    /\ last.ret = SUCCESS

\* C2: while matching_result is set, Check.update() returns it unchanged whatever the
\* store holds; after an update that read the store, matching_result is the returned
\* result, except that it stays unset for SUCCESS under ON_SUCCESS.
C2_CheckMemoization ==
    (b.class = "Check" /\ last.op = "update") =>
        /\ last.pre # Unset =>
              (last.ret = last.pre /\ b.matching_result = last.pre)
        /\ last.pre = Unset =>
              b.matching_result =
                 IF last.ret = SUCCESS /\ b.clearing_policy = ON_SUCCESS
                 THEN Unset ELSE last.ret

\* a cached SUCCESS was returned after the variable had been deleted
C2_Witness ==
    /\ b.class = "Check" /\ last.op = "update"
    /\ last.pre = SUCCESS /\ last.ret = SUCCESS
    /\ PathValue(b.variable_name) = Missing

\* the status an instance built like b, with nothing cached, returns on this store
FreshResult ==
    LET new == [b EXCEPT !.matching_result = Unset]
    IN  IF b.class = "Check" THEN CheckUpdate(BehaviourDict, new).ret
        ELSE WaitUpdate(BehaviourDict, new).ret

\* C3: for Check and Wait alike, terminate(INVALID) under any policy and initialise()
\* under ON_INITIALISE leave matching_result unset, and the next update() returns
\* what the store gives at that update, not the status cached before; terminate with
\* another status leaves matching_result as it was.
C3_CacheInvalidation ==
    /\ (last.op = "terminate" /\ last.arg = INVALID) => b.matching_result = Unset
    /\ (last.op = "terminate" /\ last.arg # INVALID) => b.matching_result = last.pre
    /\ (last.op = "initialise" /\ b.clearing_policy = ON_INITIALISE) =>
          b.matching_result = Unset
    /\ (last.op = "update" /\ last.flag) => (last.pre = Unset /\ last.ret = FreshResult)

\* Scenario A: a Check under ON_INITIALISE returned FAILURE, then, the variable set and
\* the cache reset, returns SUCCESS
C3_Witness ==
    /\ b.class = "Check" /\ b.clearing_policy = ON_INITIALISE
    /\ b.expected_value # NoneV
    /\ last.op = "update" /\ last.flag
    /\ last.arg = FAILURE /\ last.ret = SUCCESS

\* C4: a Check under ON_SUCCESS whose update() returned SUCCESS reads the store again
\* at its next update(), initialise() or not in between: SUCCESS if the variable
\* still matches, FAILURE if it was deleted or no longer matches.
C4_NoStaleSuccess ==
    (b.class = "Check" /\ b.clearing_policy = ON_SUCCESS
        /\ last.op = "update" /\ last.arg = SUCCESS) =>
        last.ret = IF Matches THEN SUCCESS ELSE FAILURE

\* Scenario B: SUCCESS, the variable deleted, no reset of the cache, then FAILURE
C4_Witness ==
    /\ b.class = "Check" /\ b.clearing_policy = ON_SUCCESS
    /\ last.op = "update" /\ ~last.flag
    /\ last.arg = SUCCESS /\ last.ret = FAILURE
    /\ PathValue(b.variable_name) = Missing

\* C5: a Wait returns only SUCCESS or RUNNING, its matching_result is unset or SUCCESS,
\* and under ON_SUCCESS it is always unset.
C5_WaitStatuses ==
    b.class = "Wait" =>
        /\ b.matching_result \in {Unset, SUCCESS}
        /\ b.clearing_policy = ON_SUCCESS => b.matching_result = Unset
        /\ last.op = "update" => last.ret \in {SUCCESS, RUNNING}

\* a Wait returned RUNNING twice in a row and cached nothing
C5_Witness ==
    /\ b.class = "Wait" /\ last.op = "update"
    /\ last.arg = RUNNING /\ last.ret = RUNNING
    /\ b.matching_result = Unset

\* C6: a Wait with an expected value returns RUNNING on every update() while the
\* variable is absent or does not satisfy the comparator (read of the waiting phase:
\* nothing is cached yet), and SUCCESS on the first update() after the variable has
\* been set to a matching value.
C6_WaitResponse ==
    (b.class = "Wait" /\ b.expected_value # NoneV /\ last.op = "update") =>
        /\ Matches => last.ret = SUCCESS
        /\ (~Matches /\ last.pre = Unset) => last.ret = RUNNING

\* C7: through every handle, get(name) returns the value of the most recent set on
\* that name, and NotFound (None) if it was never set or was deleted last; a delete
\* raises no error, of an absent name included.
C7_SharedRegister ==
    /\ \A h \in Handles, name \in Names :
          BlackboardGet(SelfDict(h), name) = RegisterValue(name)
    /\ last.op = "get" => last.val = RegisterValue(last.name)
    /\ last.op = "Clear.initialise" => ~last.flag

\* a get through one handle returned a value written under a name with a separator
C7_Witness ==
    /\ last.op = "get" /\ last.arg = "user2"
    /\ last.name = <<"pose", "/", "x">>
    /\ last.val = IntV(2)

\* C8: set(name, value, overwrite=false) returns false and leaves the store as it was
\* when name exists; in every other case it writes the value and returns true.
C8_SetOverwrite ==
    last.op = "set" =>
        IF ~last.flag /\ last.name \in DOMAIN last.before
        THEN last.ret = "False" /\ dicts[SharedState] = last.before
        ELSE /\ last.ret = "True"
             /\ dicts[SharedState] = Put(last.before, last.name, last.val)

\* a set without overwrite on an existing name returned false
C8_Witness ==
    /\ last.op = "set" /\ ~last.flag
    /\ last.ret = "False"
    /\ Lookup(last.before, last.name) # last.val

\* what a resolution gives, None for a failure
ValueOrNone(r) == IF r.ok THEN r.val ELSE NoneV

\* C9: get(name) resolves a name of several path segments by traversing the nested
\* fields, NotFound when a segment fails, the same way Check and the watch poll do.
C9_GetNestedPath ==
    \A name \in Names :
        LET got == BlackboardGet(dicts[SharedState], name)
        IN  /\ got = ValueOrNone(AttrGetter(dicts[SharedState], name))
            /\ got = ValueOrNone(CheckAttr(dicts[SharedState], name))

\* C10: for a sub-blackboard with a subscriber, a publish_blackboard() after a change
\* of a watched variable publishes exactly once on its topic, and one with no change
\* since the publish_blackboard() before publishes nothing.
C10_PublishOncePerChange ==
    last.op = "publish_blackboard" =>
        \A i \in DOMAIN polled :
            (polled[i].subscribed /\ polled[i].prev.known) =>
                polled[i].count = IF polled[i].cur # polled[i].prev.vals THEN 1 ELSE 0

----------------------------------------------------------------------------
\* C11: a publish_blackboard() sends on a publisher, the "~blackboard" one or a
\* sub-blackboard's, only if that publisher has a subscriber and the digest of the
\* values polled differs from the digest cached for it before the poll.
C11_SendOnlyWhenChanged ==
    last.op = "publish_blackboard" =>
        /\ last.flag => (connections > 0 /\ Dumps(register) # last.cached)
        /\ \A i \in DOMAIN polled :
              polled[i].count > 0 =>
                  /\ polled[i].subscribed
                  /\ Dumps(polled[i].cur) # polled[i].cached

\* a publish_blackboard() that sent on both publishers, one that sent on neither
\* having come before (the digests cached are pickles)
C11_Witness ==
    /\ last.op = "publish_blackboard"
    /\ last.flag
    /\ last.cached.kind = "pickle"
    /\ \E i \in DOMAIN polled : polled[i].count = 1 /\ polled[i].cached.kind = "pickle"

----------------------------------------------------------------------------
\* C12: no two sub-blackboards in the list have the same topic_name, whatever
\* initialize_sub_blackboard and shutdown_sub_blackboard calls came before; so a
\* name made up for a call without topic_name is the name of no other one.
C12_TopicNameUnique ==
    \A i, j \in DOMAIN sub_blackboards :
        i # j => sub_blackboards[i].topic_name # sub_blackboards[j].topic_name

\* the list without its element i
RemoveAt(seq, i) == SubSeq(seq, 1, i - 1) \o SubSeq(seq, i + 1, Len(seq))

\* C13: destroy_blackboard_watcher returns True exactly when a sub-blackboard of
\* that topic_name is in the list; it then removes it, so that no sub-blackboard of
\* that name is left to be polled, and leaves the others as they were; when there
\* is none it returns False and changes nothing.
C13_Unregister ==
    last.op = "destroy_blackboard_watcher" =>
        LET named == {i \in DOMAIN last.subs : last.subs[i].topic_name = last.name}
        IN  /\ last.ret = Bool(named # {})
            /\ named = {} => sub_blackboards = last.subs
            /\ named # {} =>
                  /\ \E i \in named : sub_blackboards = RemoveAt(last.subs, i)
                  /\ \A i \in DOMAIN sub_blackboards :
                        sub_blackboards[i].topic_name # last.name

\* C14: a registration with attrs empty or no list, or with a topic_name that a
\* sub-blackboard in the list has, adds nothing to the list and returns no name;
\* and a registration that returns a name has added a sub-blackboard of that name.
C14_RegisterFailsFast ==
    last.op \in {"initialize_sub_blackboard", "spawn_blackboard_watcher"} =>
        LET malformed ==
                \/ last.attrs = <<>>
                \/ last.attrs = NotAList
                \/ /\ last.topic # NoTopic
                   /\ \E i \in DOMAIN last.subs : last.subs[i].topic_name = last.topic
        IN  /\ malformed => (sub_blackboards = last.subs /\ last.name = NoTopic)
            /\ last.name # NoTopic =>
                  /\ Len(sub_blackboards) = Len(last.subs) + 1
                  /\ sub_blackboards[Len(sub_blackboards)].topic_name = last.name

----------------------------------------------------------------------------
\* C15: whatever the interleaving of publish_blackboard() with the destroy
\* service, publish_blackboard never asks the connections of, polls or publishes
\* a SubBlackboard whose publisher has been unregistered.
C15_NoReadAfterRelease == audit.released = {}

\* how often the publish_blackboard under way has taken the object id from the list
Visits(id) == Cardinality({k \in DOMAIN audit.visited : audit.visited[k] = id})

\* C16: when a publish_blackboard() ends, every SubBlackboard that was in the list
\* when it started and still is, its publisher registered, has been taken by the
\* loop exactly once, whatever was spawned or destroyed meanwhile.
C16_EachWatchPolledOnce ==
    audit.done =>
        \A i \in DOMAIN sub_blackboards :
            (sub_blackboards[i].id \in audit.start
                /\ sub_blackboards[i].publisher = "registered") =>
                    Visits(sub_blackboards[i].id) = 1

----------------------------------------------------------------------------
\* C17: after a publish_blackboard() has polled a sub-blackboard (one with a
\* subscriber), its dict maps exactly the attrs that resolve on the blackboard
\* now to the values they have now: an attr that does not resolve is not in it,
\* also when it resolved at an earlier poll and its variable was deleted since.
C17_CachedValuesExact ==
    last.op = "publish_blackboard" =>
        \A i \in DOMAIN polled :
            polled[i].subscribed => sub_blackboards[i].dict = polled[i].cur

----------------------------------------------------------------------------
----------------------------------------------------------------------------
\* the value at a "/"-separated path of the blackboard as written, Missing when
\* the path does not lead to a data field
RECURSIVE FieldAt(_, _)
FieldAt(v, segs) ==
    IF segs = <<>> THEN v
    ELSE IF v.kind = "obj" /\ Head(segs) = <<"x">> THEN FieldAt(IntV(v.v), Tail(segs))
    ELSE IF v.kind = "node" /\ Head(segs) = <<"next">>
         THEN FieldAt(NodeNext(v.v), Tail(segs))
    ELSE Missing
ValueAt(path) ==
    LET segs == Split(path, "/")
    IN  FieldAt(Lookup(register, Head(segs)), Tail(segs))

\* C19: list_blackboard_variables ends with a list of paths whatever values are
\* on the blackboard, objects that refer to themselves or to an ancestor
\* included, and no path in the list is a field of a number.
C19_NestedKeysTerminate ==
    last.op = "list_blackboard_variables" =>
        /\ ~last.flag
        /\ \A i \in DOMAIN last.keys :
              Len(last.keys[i]) > 1 =>
                  ValueAt(SubSeq(last.keys[i], 1, Len(last.keys[i]) - 2)).kind
                      \notin {"int", "missing"}

----------------------------------------------------------------------------
\* C20: on every blackboard, for every variable name, expected value and
\* comparator, a WaitForBlackboardVariable and a CheckBlackboardVariable that have
\* nothing cached answer alike: update() of the one returns SUCCESS exactly when
\* update() of the other does, and RUNNING exactly when the other returns FAILURE.
C20_WaitMirrorsCheck ==
    b.matching_result = Unset =>
        LET wait == WaitUpdate(BehaviourDict, [b EXCEPT !.class = "Wait"]).ret
            check == CheckUpdate(BehaviourDict, [b EXCEPT !.class = "Check"]).ret
        IN  /\ wait = SUCCESS <=> check = SUCCESS
            /\ wait = RUNNING <=> check = FAILURE

----------------------------------------------------------------------------
\* C21: a CheckBlackboardVariable with clearing policy ON_SUCCESS whose update()
\* returned FAILURE keeps FAILURE as its matching_result, and every later update()
\* returns FAILURE, whatever is set or deleted and whatever initialise() calls and
\* terminate() calls with another status come between, until terminate(INVALID).
C21_StickyFailure ==
    (b.class = "Check" /\ b.clearing_policy = ON_SUCCESS) =>
        /\ (prevret = FAILURE /\ ~fresh) => b.matching_result = FAILURE
        /\ (last.op = "update" /\ last.arg = FAILURE /\ ~last.flag) =>
              last.ret = FAILURE

\* an update() that returned FAILURE after one that did, no terminate(INVALID)
\* between them, although the variable now is as expected
C21_Witness ==
    /\ b.class = "Check" /\ b.clearing_policy = ON_SUCCESS
    /\ last.op = "update" /\ ~last.flag
    /\ last.arg = FAILURE /\ last.ret = FAILURE
    /\ Matches

====
